---- MODULE Spec2Model ----
(***************************************************************************)
(* Model of the item tracker (src/src/index.ts): the poll loop of main,    *)
(* the page classifier checkItemStock, the notifier sendNotification, the  *)
(* config file and the status file.                                        *)
(*                                                                         *)
(* main is one sequential async function; every action below is the code   *)
(* between two of its await points (or between process start and the first *)
(* await).  pc names the await point main is suspended at.                 *)
(***************************************************************************)
EXTENDS Integers, Sequences, FiniteSets, TLC

----------------------------------------------------------------------------
(* Bounds and program constants                                            *)

\* longest item list of a config file
MaxItems == 2

\* (config.checkIntervalSeconds || 300)
DefaultIntervalSeconds == 300

\* ... * 1000
MsPerSecond == 1000

----------------------------------------------------------------------------
(* Data                                                                    *)

Urls == {"u1", "u2"}

\* interface Item (lastStatus is never read or written by the program)
Item(u) == [url |-> u, name |-> u]

ItemSet == {Item(u) : u \in Urls}

ItemLists == UNION {[1..n -> ItemSet] : n \in 0..MaxItems}

\* an optional number is a sequence of length 0 (absent) or 1
IntervalValues == {<<>>, <<60>>}

\* interface Config
Configs ==
    [checkIntervalSeconds : IntervalValues, emailTo : {"me"}, items : ItemLists]

NoConfig == [checkIntervalSeconds |-> <<>>, emailTo |-> "", items |-> <<>>]

\* what may be found at CONFIG_PATH
ConfigFiles ==
    {[kind |-> "missing", value |-> NoConfig], [kind |-> "invalid", value |-> NoConfig]}
    \cup {[kind |-> "json", value |-> c] : c \in Configs}

\* the statuses the program stores; "none" is an absent key (undefined)
StoredStatus == {"in_stock", "out_of_stock"}

StatusMaps == [Urls -> StoredStatus \cup {"none"}]

\* Record<string, status> with no key
EmptyStatuses == [u \in Urls |-> "none"]

\* JSON.stringify(itemStatuses, null, 2): the entries of the object
Stringify(m) == {<<u, m[u]>> : u \in {x \in Urls : m[x] # "none"}}

\* JSON.parse of a status file: the object with these entries
Parse(entries) ==
    [u \in Urls |->
        IF \E e \in entries : e[1] = u
        THEN (CHOOSE e \in entries : e[1] = u)[2]
        ELSE "none"]

\* what may be found at STATUS_FILE
StatusFiles ==
    {[kind |-> "absent", entries |-> {}], [kind |-> "corrupt", entries |-> {}]}
    \cup {[kind |-> "json", entries |-> Stringify(m)] : m \in StatusMaps}

----------------------------------------------------------------------------
(* Text of the #availability block                                         *)

UpperCase ==
    <<"A", "B", "C", "D", "E", "F", "G", "H", "I", "J", "K", "L", "M",
      "N", "O", "P", "Q", "R", "S", "T", "U", "V", "W", "X", "Y", "Z">>

LowerCase ==
    <<"a", "b", "c", "d", "e", "f", "g", "h", "i", "j", "k", "l", "m",
      "n", "o", "p", "q", "r", "s", "t", "u", "v", "w", "x", "y", "z">>

CURRENTLY_UNAVAILABLE ==
    <<"c", "u", "r", "r", "e", "n", "t", "l", "y", " ",
      "u", "n", "a", "v", "a", "i", "l", "a", "b", "l", "e">>

OUT_OF_STOCK ==
    <<"o", "u", "t", " ", "o", "f", " ", "s", "t", "o", "c", "k">>

TextInStock ==
    <<"I", "n", " ", "S", "t", "o", "c", "k">>

TextCurrentlyUnavailable ==
    <<"C", "u", "r", "r", "e", "n", "t", "l", "y", " ",
      "u", "n", "a", "v", "a", "i", "l", "a", "b", "l", "e", ".">>

TextTemporarilyOut ==
    <<"T", "e", "m", "p", "o", "r", "a", "r", "i", "l", "y", " ",
      "o", "u", "t", " ", "o", "f", " ", "s", "t", "o", "c", "k", ".">>

TextShoutOut ==
    <<"O", "U", "T", " ", "O", "F", " ", "S", "T", "O", "C", "K">>

TextOnlyLeft ==
    <<"O", "n", "l", "y", " ", "2", " ", "l", "e", "f", "t", " ",
      "i", "n", " ", "s", "t", "o", "c", "k">>

Texts ==
    {<<>>, TextInStock, TextCurrentlyUnavailable, TextTemporarilyOut,
     TextShoutOut, TextOnlyLeft}

\* String.prototype.toLowerCase on one character
LowerChar(c) ==
    IF \E i \in 1..Len(UpperCase) : UpperCase[i] = c
    THEN LowerCase[CHOOSE i \in 1..Len(UpperCase) : UpperCase[i] = c]
    ELSE c

\* String.prototype.toLowerCase
ToLowerCase(s) == [i \in 1..Len(s) |-> LowerChar(s[i])]

\* String.prototype.includes
Includes(s, sub) ==
    \E i \in 0..(Len(s) - Len(sub)) : SubSeq(s, i + 1, i + Len(sub)) = sub

----------------------------------------------------------------------------
(* checkItemStock: the facts of the rendered page and the classification   *)

\* what page.$ finds and what innerText of #availability is
Pages ==
    {[addToCartButton |-> a, buyNowButton |-> b, availabilityDiv |-> d, text |-> t] :
        a \in BOOLEAN, b \in BOOLEAN, d \in BOOLEAN, t \in Texts}

NoPage ==
    [addToCartButton |-> FALSE, buyNowButton |-> FALSE, availabilityDiv |-> FALSE,
     text |-> <<>>]

\* the places of the try block that can throw, in the order they run
Steps == {"setup", "goto", "interstitial", "productTitle", "query", "evaluate"}

\* the steps whose exception an inner try/catch swallows
CaughtInside == {"interstitial", "productTitle"}

\* variant: the override without toLowerCase
UnavailableTextCaseSensitive(text) ==
    Includes(text, CURRENTLY_UNAVAILABLE) \/ Includes(text, OUT_OF_STOCK)

\* line 105: the condition of the override, the text names unavailability
UnavailableText(text) ==
    \/ Includes(ToLowerCase(text), CURRENTLY_UNAVAILABLE)
    \/ Includes(ToLowerCase(text), OUT_OF_STOCK)

\* lines 96-113: isAvailable and the value returned
Classify(p) ==
    LET fromButtons == p.addToCartButton \/ p.buyNowButton
        isAvailable ==
            IF p.availabilityDiv /\ UnavailableText(p.text) THEN FALSE ELSE fromButtons
    IN  IF isAvailable THEN "in_stock" ELSE "out_of_stock"

\* variant: the outer catch reports the item as unavailable
CatchResultOutOfStock == "out_of_stock"

\* line 116: the value the outer catch returns
CatchResult == "error"

\* the try block on page p when the steps of w throw as they are reached:
\* the value returned and the steps that did throw
TryBlock(p, w) ==
    IF "setup" \in w
    THEN [result |-> CatchResult, raised |-> {"setup"}]
    ELSE IF "goto" \in w
    THEN [result |-> CatchResult, raised |-> {"goto"}]
    ELSE LET caught == w \cap CaughtInside
         IN  IF "query" \in w
             THEN [result |-> CatchResult, raised |-> caught \cup {"query"}]
             ELSE IF p.availabilityDiv /\ "evaluate" \in w
             THEN [result |-> CatchResult, raised |-> caught \cup {"evaluate"}]
             ELSE [result |-> Classify(p), raised |-> caught]

----------------------------------------------------------------------------
(* main: the pieces of the loop body                                       *)

\* (config.checkIntervalSeconds || 300) * 1000
IntervalMs(c) ==
    LET s == c.checkIntervalSeconds
    IN  (IF s = <<>> \/ s[1] = 0 THEN DefaultIntervalSeconds ELSE s[1]) * MsPerSecond

\* variant: notify only when the stored status is out_of_stock
ShouldNotifyOnlyFromOut(st, prev) == st = "in_stock" /\ prev = "out_of_stock"

\* variant: notify whenever the check returns in_stock
ShouldNotifyWhenInStock(st, prev) == st = "in_stock"

\* line 188: status === 'in_stock' && prevStatus !== 'in_stock'
ShouldNotify(st, prev) == st = "in_stock" /\ prev # "in_stock"

\* variant: an error is stored like any other status
ShouldUpdateAlways(st) == TRUE

\* line 194: else if (status !== 'error')
ShouldUpdate(st) == st # "error"

\* itemStatuses[item.url] = status
Assign(m, u, st) == [m EXCEPT ![u] = st]

\* variant: the map is assigned to and the file is not written
WriteForgotten(old, m) == old

\* fs.writeFileSync(STATUS_FILE, JSON.stringify(itemStatuses, null, 2))
WriteStatusFile(old, m) == [kind |-> "json", entries |-> Stringify(m)]

\* variant: the page is not closed
PageLeftOpen(n) == n

\* line 118: page.close() leaves one page less
PagesAfterClose(n) == n - 1

----------------------------------------------------------------------------
(* State                                                                   *)

VARIABLES
    pc,             \* where main is: the await it is suspended at
    configFile,     \* content of CONFIG_PATH
    statusFile,     \* content of STATUS_FILE
    config,         \* const config of main (line 148)
    checkInterval,  \* const checkInterval of main (line 149), in ms
    currentConfig,  \* let currentConfig of the running cycle
    itemStatuses,   \* let itemStatuses of main
    idx,            \* position of the for loop in currentConfig.items
    status,         \* const status of the loop body
    prevStatus,     \* const prevStatus of the loop body
    browsersOpen,   \* browsers launched and not closed
    pagesOpen,      \* pages opened and not closed
    timer,          \* delay of the pending inter-cycle setTimeout, in ms
    page,           \* the page facts of a classifier run
    willThrow,      \* the steps that throw in a classifier run
    raised,         \* history: the steps that threw in the last check
    storedBefore,   \* history: itemStatuses[item.url] when the check began
    sameUrlBefore,  \* history: for a url that comes again in this cycle,
                    \* what its latest check in the cycle returned and how
                    \* often that check notified
    notified,       \* history: calls of sendNotification in this iteration
    sendResult,     \* history: how the last call of sendNotification ended
    alerted,        \* history: url notified and not seen out_of_stock since
    modified,       \* history: itemStatuses was assigned to since startup
    crashStep,      \* history: the call whose rejection ended main
    restarted       \* history: the process was stopped and started again

vars ==
    <<pc, configFile, statusFile, config, checkInterval, currentConfig,
      itemStatuses, idx, status, prevStatus, browsersOpen, pagesOpen, timer,
      page, willThrow, raised, storedBefore, sameUrlBefore, notified,
      sendResult, alerted, modified, crashStep, restarted>>

\* the variables of one classifier run
checkVars == <<page, willThrow>>

\* the variables of the loop that a check of one item leaves alone
storeVars == <<itemStatuses, statusFile, modified>>

cycleVars == <<configFile, config, checkInterval, currentConfig>>

\* no url was checked earlier in this cycle
NoCheckBefore == [u \in Urls |-> <<"none", 0>>]

\* the item list of the cycle has url u at position i or later
ComesAgain(u, i) ==
    \E j \in i..Len(currentConfig.items) : currentConfig.items[j].url = u

CurrentItem == currentConfig.items[idx]

\* the state of main before its first statement
StartOfMain ==
    /\ config = NoConfig
    /\ checkInterval = 0
    /\ currentConfig = NoConfig
    /\ itemStatuses = EmptyStatuses
    /\ idx = 0
    /\ status = "none"
    /\ prevStatus = "none"
    /\ browsersOpen = 0
    /\ pagesOpen = 0
    /\ timer = 0
    /\ raised = {}
    /\ storedBefore = "none"
    /\ sameUrlBefore = NoCheckBefore
    /\ notified = 0
    /\ sendResult = "none"
    /\ alerted = [u \in Urls |-> FALSE]
    /\ modified = FALSE
    /\ crashStep = "none"

Init ==
    /\ pc = "start"
    /\ StartOfMain
    /\ configFile \in ConfigFiles
    /\ statusFile \in StatusFiles
    /\ page = NoPage
    /\ willThrow = {}
    /\ restarted = FALSE

----------------------------------------------------------------------------
(* loadConfig and the startup of main                                      *)

\* variant: the status file is not read at startup
LoadNothing(file) == EmptyStatuses

\* lines 153-162: itemStatuses after the status file was read, if there is
\* one and it parses
LoadStatuses(file) ==
    IF file.kind = "json" THEN Parse(file.entries) ELSE EmptyStatuses

\* lines 147-165: load the config, derive the interval, read the status file
Startup ==
    /\ pc = "start"
    /\ \/ /\ configFile.kind = "missing"
          /\ pc' = "exited"
          /\ crashStep' = "loadConfig"
          /\ UNCHANGED <<config, checkInterval, itemStatuses>>
       \/ /\ configFile.kind = "invalid"
          /\ pc' = "crashed"
          /\ crashStep' = "loadConfig"
          /\ UNCHANGED <<config, checkInterval, itemStatuses>>
       \/ /\ configFile.kind = "json"
          /\ config' = configFile.value
          /\ checkInterval' = IntervalMs(configFile.value)
          /\ itemStatuses' = LoadStatuses(statusFile)
          /\ pc' = "reload"
          /\ UNCHANGED crashStep
    /\ UNCHANGED <<configFile, statusFile, currentConfig, idx, status, prevStatus,
                   browsersOpen, pagesOpen, timer, page, willThrow, restarted, raised,
                   storedBefore, sameUrlBefore, notified, sendResult, alerted, modified>>

\* the config file is as the last Reload found it: no edit since, or an edit
\* that leaves main with the same config
FileAsLastRead ==
    \/ configFile.kind = "json" /\ configFile.value = currentConfig
    \/ configFile.kind = "invalid" /\ currentConfig = config

\* one edit stands for any number of edits between two reads.
\* the config file is edited between two cycles (currentConfig holds the
\* config of a cycle that ran); an edit at any other time shows to main only
\* at its next read, which is the one of Reload, and nothing can edit the
\* file between line 148 and the first run of line 171, which follow each
\* other without an await
EditConfig ==
    /\ pc = "reload"
    /\ currentConfig # NoConfig
    /\ FileAsLastRead
    /\ \E f \in ConfigFiles : f # configFile /\ configFile' = f
    /\ UNCHANGED <<pc, statusFile, config, checkInterval, currentConfig,
                   itemStatuses, idx, status, prevStatus, browsersOpen, pagesOpen,
                   timer, page, willThrow, restarted, raised, storedBefore, sameUrlBefore, notified,
                   sendResult, alerted, modified, crashStep>>

\* lines 168-175: reload the config, fall back to config when loadConfig throws
Reload ==
    /\ pc = "reload"
    /\ \/ /\ configFile.kind = "missing"
          /\ pc' = "exited"
          /\ crashStep' = "loadConfig"
          /\ UNCHANGED currentConfig
       \/ /\ configFile.kind = "invalid"
          /\ currentConfig' = config
          /\ pc' = "launch"
          /\ UNCHANGED crashStep
       \/ /\ configFile.kind = "json"
          /\ currentConfig' = configFile.value
          /\ pc' = "launch"
          /\ UNCHANGED crashStep
    /\ UNCHANGED <<configFile, statusFile, config, checkInterval, itemStatuses,
                   idx, status, prevStatus, browsersOpen, pagesOpen, timer, page,
                   willThrow, raised, storedBefore, sameUrlBefore, notified, sendResult, alerted,
                   modified, restarted>>

\* the for loop moves to item i, or past the last item
ForLoopAt(i) ==
    /\ idx' = i
    /\ pc' = IF i <= Len(currentConfig.items) THEN "newPage" ELSE "closeBrowser"
    /\ status' = "none"
    /\ prevStatus' = "none"
    /\ raised' = {}
    /\ storedBefore' = "none"
    /\ sameUrlBefore' =
          [u \in Urls |->
              IF 1 < i /\ ComesAgain(u, i)
              THEN IF currentConfig.items[i - 1].url = u
                   THEN <<status, notified>>
                   ELSE sameUrlBefore[u]
              ELSE NoCheckBefore[u]]
    /\ notified' = 0
    /\ sendResult' = "none"

\* lines 177-182: puppeteer.launch, then the first item
Launch ==
    /\ pc = "launch"
    /\ browsersOpen' = browsersOpen + 1
    /\ ForLoopAt(1)
    /\ UNCHANGED <<cycleVars, storeVars, checkVars, restarted, pagesOpen, timer, alerted,
                   crashStep>>

----------------------------------------------------------------------------
(* checkItemStock, called for the item the loop is at                      *)

\* the pages the loop meets: one text of each kind is enough for it, as the
\* loop reads only the value checkItemStock returns
LoopPages ==
    {p \in Pages : ~p.buyNowButton /\ p.text \in {<<>>, TextCurrentlyUnavailable}}

\* every outcome of the try block on those pages: the value returned and the
\* steps that threw
TryOutcomes == {TryBlock(p, w) : p \in LoopPages, w \in SUBSET Steps}

\* line 38: browser.newPage(), outside the try block
NewPage ==
    /\ pc = "newPage"
    /\ storedBefore' = itemStatuses[CurrentItem.url]
    /\ \/ /\ pagesOpen' = pagesOpen + 1
          /\ pc' = "fetch"
          /\ UNCHANGED crashStep
       \/ /\ pc' = "crashed"
          /\ crashStep' = "newPage"
          /\ UNCHANGED pagesOpen
    /\ UNCHANGED <<cycleVars, storeVars, checkVars, restarted, idx, status, prevStatus,
                   browsersOpen, timer, raised, notified, sendResult, alerted,
                   sameUrlBefore>>

\* lines 39-119: the try block, its catch and the finally block.  When
\* page.close() rejects, the rejection replaces the value returned and main
\* never assigns status
checkItemStock ==
    /\ pc = "fetch"
    /\ \/ \E r \in TryOutcomes :
             /\ status' = r.result
             /\ raised' = r.raised
             /\ alerted' =
                   IF r.result = "out_of_stock"
                   THEN [alerted EXCEPT ![CurrentItem.url] = FALSE]
                   ELSE alerted
             /\ pagesOpen' = PagesAfterClose(pagesOpen)
             /\ pc' = "compare"
             /\ UNCHANGED crashStep
       \/ /\ pc' = "crashed"
          /\ crashStep' = "pageClose"
          /\ UNCHANGED <<status, raised, alerted, pagesOpen>>
    /\ UNCHANGED <<cycleVars, storeVars, checkVars, restarted, idx, prevStatus, browsersOpen,
                   timer, storedBefore, sameUrlBefore, notified, sendResult>>

----------------------------------------------------------------------------
(* main: the loop body after the check                                     *)

\* lines 184-204, up to the await of sendNotification
Compare ==
    /\ pc = "compare"
    /\ prevStatus' = itemStatuses[CurrentItem.url]
    /\ IF ShouldNotify(status, itemStatuses[CurrentItem.url])
       THEN /\ pc' = "notify"
            /\ UNCHANGED storeVars
       ELSE /\ pc' = "itemDelay"
            /\ IF ShouldUpdate(status) /\ itemStatuses[CurrentItem.url] # status
               THEN /\ itemStatuses' = Assign(itemStatuses, CurrentItem.url, status)
                    /\ statusFile' = WriteStatusFile(statusFile, itemStatuses')
                    /\ modified' = TRUE
               ELSE UNCHANGED storeVars
    /\ UNCHANGED <<cycleVars, checkVars, restarted, idx, status, browsersOpen, pagesOpen,
                   timer, raised, storedBefore, sameUrlBefore, notified, sendResult, alerted,
                   crashStep>>

\* what resend.emails.send can do: resolve with data, resolve with an error,
\* or throw
SendOutcomes == {"sent", "apiError", "threw"}

FailedSends == {"apiError", "threw"}

\* a sendNotification without the catch of lines 142-144
AfterSendRethrow(outcome) == IF outcome = "threw" THEN "crashed" ELSE "persist"

\* lines 137-144: the error is logged, the exception is caught and logged;
\* sendNotification returns to line 191 of main on every outcome
AfterSend(outcome) == "persist"

\* lines 122-145: sendNotification, one attempt
sendNotification ==
    /\ pc = "notify"
    /\ sendResult' \in SendOutcomes
    /\ notified' = notified + 1
    /\ alerted' = [alerted EXCEPT ![CurrentItem.url] = TRUE]
    /\ pc' = AfterSend(sendResult')
    /\ UNCHANGED <<cycleVars, storeVars, checkVars, restarted, idx, status, prevStatus,
                   browsersOpen, pagesOpen, timer, raised, storedBefore, sameUrlBefore, crashStep>>

\* lines 191-193: after the notification, store and save
Persist ==
    /\ pc = "persist"
    /\ itemStatuses' = Assign(itemStatuses, CurrentItem.url, status)
    /\ statusFile' = WriteStatusFile(statusFile, itemStatuses')
    /\ modified' = TRUE
    /\ pc' = "itemDelay"
    /\ UNCHANGED <<cycleVars, checkVars, restarted, idx, status, prevStatus, browsersOpen,
                   pagesOpen, timer, raised, storedBefore, sameUrlBefore, notified, sendResult,
                   alerted, crashStep>>

\* line 207: the delay between items, then the next item
ItemDelay ==
    /\ pc = "itemDelay"
    /\ ForLoopAt(idx + 1)
    /\ UNCHANGED <<cycleVars, storeVars, checkVars, restarted, browsersOpen, pagesOpen, timer,
                   alerted, crashStep>>

\* lines 210-213: browser.close(), then the inter-cycle wait is started
CloseBrowser ==
    /\ pc = "closeBrowser"
    /\ browsersOpen' = browsersOpen - 1
    /\ pagesOpen' = 0
    /\ timer' = checkInterval
    /\ pc' = "wait"
    /\ UNCHANGED <<cycleVars, storeVars, checkVars, restarted, idx, status, prevStatus, raised,
                   storedBefore, sameUrlBefore, notified, sendResult, alerted, crashStep>>

\* line 213: the wait ends and the while loop starts over
Wait ==
    /\ pc = "wait"
    /\ timer' = 0
    /\ idx' = 0
    /\ pc' = "reload"
    /\ UNCHANGED <<cycleVars, storeVars, checkVars, restarted, status, prevStatus, browsersOpen,
                   pagesOpen, raised, storedBefore, sameUrlBefore, notified, sendResult, alerted,
                   crashStep>>

\* the process is stopped, wherever main is, and started again: the memory of
\* main is lost and the two files stay.  One restart is followed.
Restart ==
    /\ pc # "start"
    /\ ~restarted
    /\ restarted' = TRUE
    /\ pc' = "start"
    /\ config' = NoConfig
    /\ checkInterval' = 0
    /\ currentConfig' = NoConfig
    /\ itemStatuses' = EmptyStatuses
    /\ idx' = 0
    /\ status' = "none"
    /\ prevStatus' = "none"
    /\ browsersOpen' = 0
    /\ pagesOpen' = 0
    /\ timer' = 0
    /\ raised' = {}
    /\ storedBefore' = "none"
    /\ sameUrlBefore' = NoCheckBefore
    /\ notified' = 0
    /\ sendResult' = "none"
    /\ alerted' = [u \in Urls |-> FALSE]
    /\ modified' = FALSE
    /\ crashStep' = "none"
    /\ UNCHANGED <<configFile, statusFile, page, willThrow>>

Next ==
    \/ Restart
    \/ Startup
    \/ EditConfig
    \/ Reload
    \/ Launch
    \/ NewPage
    \/ checkItemStock
    \/ Compare
    \/ sendNotification
    \/ Persist
    \/ ItemDelay
    \/ CloseBrowser
    \/ Wait

Spec == Init /\ [][Next]_vars

----------------------------------------------------------------------------
(* checkItemStock alone: one run of the try block on every page            *)

InitClassify ==
    /\ pc = "classify"
    /\ StartOfMain
    /\ configFile = [kind |-> "missing", value |-> NoConfig]
    /\ statusFile = [kind |-> "absent", entries |-> {}]
    /\ page \in Pages
    /\ willThrow \in SUBSET Steps
    /\ restarted = FALSE

\* lines 39-116 on the page and with the exceptions drawn by InitClassify
TryBlockRun ==
    /\ pc = "classify"
    /\ status' = TryBlock(page, willThrow).result
    /\ raised' = TryBlock(page, willThrow).raised
    /\ pc' = "classified"
    /\ UNCHANGED <<cycleVars, storeVars, checkVars, restarted, idx, prevStatus, browsersOpen,
                   pagesOpen, timer, storedBefore, sameUrlBefore, notified, sendResult, alerted,
                   crashStep>>

NextClassify == TryBlockRun

SpecClassify == InitClassify /\ [][NextClassify]_vars

----------------------------------------------------------------------------
(* Properties                                                              *)

\* main is between two checks: the loop body of an item is over, or not begun
BetweenChecks == {"reload", "launch", "newPage", "itemDelay", "closeBrowser", "wait"}

\* C1: a check that returns in_stock while the status stored for the url is
\* not in_stock calls sendNotification exactly once in that iteration, and no
\* iteration ever calls it twice.
C1_ExactlyOneNotification ==
    /\ notified <= 1
    /\ (pc \in {"persist", "itemDelay"} /\ status = "in_stock"
            /\ storedBefore # "in_stock")
        => notified = 1

C1_Witness ==
    /\ pc = "itemDelay"
    /\ status = "in_stock"
    /\ storedBefore = "out_of_stock"
    /\ notified = 1
    /\ itemStatuses[CurrentItem.url] = "in_stock"

\* C2: the step of main that handles a check which returned error (a step of
\* the running process, not a stop of it) leaves the status map and the status
\* file as they are, for every url, sends no notification and goes on to the
\* delay between items.
C2_ErrorLeavesStoreAlone ==
    [][(pc = "compare" /\ status = "error" /\ pc' # "start")
        => /\ itemStatuses' = itemStatuses
           /\ statusFile' = statusFile
           /\ notified' = 0
           /\ pc' = "itemDelay"]_vars

C2_Witness ==
    /\ pc = "itemDelay"
    /\ status = "error"
    /\ storedBefore = "in_stock"
    /\ itemStatuses[CurrentItem.url] = "in_stock"
    /\ notified = 0

\* the two characters are the same letter, in whatever case
SameLetter(a, b) ==
    \/ a = b
    \/ \E i \in 1..Len(UpperCase) : {a, b} = {UpperCase[i], LowerCase[i]}

\* the text contains the phrase, letter case aside
Mentions(text, phrase) ==
    \E i \in 0..(Len(text) - Len(phrase)) :
        \A k \in 1..Len(phrase) : SameLetter(text[i + k], phrase[k])

\* C3: on every page, when no step throws, checkItemStock returns in_stock
\* exactly when a button is present and the availability block is absent or
\* mentions neither phrase, and out_of_stock otherwise.
C3_ClassifierPolicy ==
    (pc = "classified" /\ raised = {})
        => LET button == page.addToCartButton \/ page.buyNowButton
               unavailable ==
                   /\ page.availabilityDiv
                   /\ \/ Mentions(page.text, CURRENTLY_UNAVAILABLE)
                      \/ Mentions(page.text, OUT_OF_STOCK)
           IN  status = IF button /\ ~unavailable THEN "in_stock" ELSE "out_of_stock"

C3_Witness ==
    /\ pc = "classified"
    /\ raised = {}
    /\ page.addToCartButton
    /\ page.availabilityDiv
    /\ page.text = TextCurrentlyUnavailable
    /\ status = "out_of_stock"

\* C4: no failure of a step of one item's check ends the poll loop.
C4_ItemFailuresIsolated ==
    ~(pc = "crashed" /\ crashStep \in {"newPage", "pageClose"})

\* C5 as claimed: after a check in which any step threw, the value returned
\* is error and nothing was written for the url.
C5_AnyExceptionIsError ==
    (pc = "itemDelay" /\ raised # {})
        => /\ status = "error"
           /\ itemStatuses[CurrentItem.url] = storedBefore

\* C5 as amended: an exception that reaches the outer catch (setup, goto, the
\* element queries, the evaluation of the availability text) makes the check
\* return error and nothing is written or notified; when only the interstitial
\* handling or the wait for #productTitle threw, the page is still classified.
C5_EscapingExceptionIsError ==
    pc \in {"compare", "notify", "persist", "itemDelay"}
        => /\ (raised \ CaughtInside # {})
                => /\ status = "error"
                   /\ itemStatuses[CurrentItem.url] = storedBefore
                   /\ notified = 0
           /\ (raised \subseteq CaughtInside)
                => status \in {"in_stock", "out_of_stock"}

C5_Witness ==
    /\ pc = "itemDelay"
    /\ "goto" \in raised
    /\ status = "error"
    /\ storedBefore = "out_of_stock"
    /\ itemStatuses[CurrentItem.url] = "out_of_stock"

\* C6: between two checks, once the status map has been assigned to, the
\* status file holds the map.
C6_PersistedAfterEveryChange ==
    (pc \in BetweenChecks /\ modified)
        => /\ statusFile.kind = "json"
           /\ Parse(statusFile.entries) = itemStatuses

C6_Witness ==
    /\ pc = "newPage"
    /\ idx = 2
    /\ modified
    /\ itemStatuses[currentConfig.items[1].url] = "out_of_stock"
    /\ Parse(statusFile.entries) = itemStatuses

\* C7 as claimed: sendNotification is called only when the check returned
\* in_stock and the status stored before the check was out_of_stock.
C7_OnlyFromOutOfStock ==
    notified > 0 => (status = "in_stock" /\ storedBefore = "out_of_stock")

\* C7 as amended: sendNotification is called only when the check returned
\* in_stock and the status stored before the check was not in_stock (it was
\* out_of_stock, or the url had no stored status).
C7_OnlyIntoInStock ==
    notified > 0 => (status = "in_stock" /\ storedBefore # "in_stock")

C7_Witness ==
    /\ pc = "persist"
    /\ notified = 1
    /\ status = "in_stock"
    /\ storedBefore = "none"

\* C8: sendNotification is never called for a url that was notified earlier in
\* the run unless a check of that url returned out_of_stock since.
C8_NoRepeatedAlert ==
    [][notified' > notified => ~alerted[CurrentItem.url]]_vars

C8_Witness ==
    /\ pc = "itemDelay"
    /\ status = "in_stock"
    /\ alerted[CurrentItem.url]
    /\ notified = 0

\* C9: at most one browser and one page are open; no page is open when an
\* item's check starts; no browser is open during the wait between cycles nor
\* when the next cycle launches one.
C9_OneBrowserOnePage ==
    /\ browsersOpen <= 1
    /\ pagesOpen <= 1
    /\ pc = "newPage" => (pagesOpen = 0 /\ browsersOpen = 1)
    /\ pc \in {"wait", "reload", "launch"} => (browsersOpen = 0 /\ pagesOpen = 0)

C9_Witness ==
    /\ pc = "fetch"
    /\ idx = 2
    /\ pagesOpen = 1
    /\ browsersOpen = 1
    /\ modified

\* C10: the items, the email settings and the delay of the wait that ends a
\* cycle are those of the config file as read when the cycle began.
C10_ConfigFreshEachCycle ==
    (pc = "wait" /\ configFile.kind = "json")
        => /\ currentConfig = configFile.value
           /\ timer = IntervalMs(configFile.value)

\* C11: when the reload that starts a cycle finds the config file missing or
\* not valid JSON, main goes on to launch the browser and the cycle runs with
\* the config of the cycle before it.
C11_FailedReloadKeepsPreviousConfig ==
    [][(pc = "reload" /\ pc' # "reload" /\ pc' # "start"
            /\ configFile.kind # "json")
        => (pc' = "launch" /\ currentConfig' = currentConfig)]_vars

\* C12: after a restart, the status map main starts with is the map the
\* status file holds, and no notification is sent for a url whose status in
\* the file is in_stock.
C12_StoreSurvivesRestart ==
    restarted
        => /\ (pc = "reload" /\ currentConfig = NoConfig /\ statusFile.kind = "json")
                => Stringify(itemStatuses) = statusFile.entries
           /\ (pc = "notify" /\ statusFile.kind = "json")
                => <<CurrentItem.url, "in_stock">> \notin statusFile.entries

C12_Witness ==
    /\ restarted
    /\ ~modified
    /\ pc = "itemDelay"
    /\ status = "in_stock"
    /\ storedBefore = "in_stock"
    /\ <<CurrentItem.url, "in_stock">> \in statusFile.entries
    /\ notified = 0

\* C13: when two items of a cycle have the same url and the check of the
\* earlier one returned in_stock, a check of the later one that returns
\* in_stock finds the status the earlier one left and sends no notification.
C13_SameUrlSharesStatus ==
    (pc \in {"notify", "persist", "itemDelay"}
        /\ sameUrlBefore[CurrentItem.url][1] = "in_stock"
        /\ status = "in_stock")
        => (storedBefore = "in_stock" /\ notified = 0 /\ pc = "itemDelay")

C13_Witness ==
    /\ pc = "itemDelay"
    /\ sameUrlBefore[CurrentItem.url] = <<"in_stock", 1>>
    /\ status = "in_stock"
    /\ notified = 0
    /\ currentConfig.items[idx - 1].url = CurrentItem.url

\* C14: a send that fails (the API returns an error, or the call throws) does
\* not stop main and is not repeated: main goes on to store in_stock and write
\* the file, then moves to the next item; no notification is attempted for a
\* url whose stored status is in_stock, and a stored in_stock is only replaced
\* by a check of that url that returned out_of_stock.
C14_FailedSendNotRetried ==
    [][/\ (pc = "notify" /\ pc' # "start")
            => (pc' = "persist" /\ notified' = 1)
       /\ (pc = "persist" /\ sendResult \in FailedSends /\ pc' # "start")
            => /\ pc' = "itemDelay"
               /\ notified' = 1
               /\ itemStatuses'[CurrentItem.url] = "in_stock"
               /\ statusFile'.kind = "json"
               /\ <<CurrentItem.url, "in_stock">> \in statusFile'.entries
       /\ (pc = "itemDelay" /\ sendResult \in FailedSends /\ pc' # "start")
            => (idx' = idx + 1 /\ pc' \in {"newPage", "closeBrowser"})
       /\ notified' > notified
            => itemStatuses[CurrentItem.url] # "in_stock"
       /\ \A u \in Urls :
            (itemStatuses[u] = "in_stock" /\ itemStatuses'[u] # "in_stock"
                /\ pc' # "start")
            => (u = CurrentItem.url /\ status = "out_of_stock")
      ]_vars

C14_Witness ==
    /\ pc = "itemDelay"
    /\ sendResult = "threw"
    /\ notified = 1
    /\ itemStatuses[CurrentItem.url] = "in_stock"
    /\ statusFile.kind = "json"
    /\ <<CurrentItem.url, "in_stock">> \in statusFile.entries
    /\ idx < Len(currentConfig.items)

\* the status file holds in_stock for url u
FileHasInStock(file, u) ==
    file.kind = "json" /\ <<u, "in_stock">> \in file.entries

\* C15: after startup, a step that puts in_stock for a url into the status map
\* or into the status file is the write of lines 192-193 for the item being
\* checked, taken after the notification attempt for it has returned; while
\* that write is pending the file has no in_stock for the url, and a stop of
\* the process at that point leaves the file so.
C15_NotificationPrecedesPersistence ==
    [][/\ \A u \in Urls :
            (pc # "start"
                /\ \/ (itemStatuses[u] # "in_stock" /\ itemStatuses'[u] = "in_stock")
                   \/ (~FileHasInStock(statusFile, u) /\ FileHasInStock(statusFile', u)))
            => /\ pc = "persist"
               /\ u = CurrentItem.url
               /\ notified = 1
               /\ sendResult \in SendOutcomes
               /\ itemStatuses'[u] = "in_stock"
               /\ FileHasInStock(statusFile', u)
       /\ pc = "persist"
            => /\ notified = 1
               /\ ~FileHasInStock(statusFile, CurrentItem.url)
               /\ pc' = "start" => ~FileHasInStock(statusFile', CurrentItem.url)
      ]_vars

C15_Witness ==
    /\ pc = "itemDelay"
    /\ sendResult = "sent"
    /\ notified = 1
    /\ storedBefore = "none"
    /\ modified
    /\ itemStatuses[CurrentItem.url] = "in_stock"
    /\ FileHasInStock(statusFile, CurrentItem.url)

====
